---- MODULE Spec2Model ----
(***************************************************************************)
(* Model of src/app.py: a Flask application with six routes.  Requests are *)
(* served by worker threads (Flask's server is threaded), so the steps of  *)
(* upload_log_json that touch the clock or the filesystem are separate     *)
(* actions; the other handlers touch no shared state and are one action.   *)
(*                                                                         *)
(* Text is a tuple of one-character strings so that the f-string on line   *)
(* 32 is real concatenation.  JSON values are tagged records.              *)
(***************************************************************************)
EXTENDS Integers, Sequences, FiniteSets, TLC

VARIABLES
    thr,          \* per worker thread: position in a handler, request, locals, response
    files,        \* the logs directory: file name -> content
    dirExists,    \* os.path.exists('logs')
    clock,        \* datetime.now(), in whole seconds
    legacyFlask   \* the installed Flask predates 2.1 (get_json returns None on a non-JSON mimetype)

vars == <<thr, files, dirExists, clock, legacyFlask>>

\* ------------------------------------------------------------------ bounds
MaxClock == 1
MaxFiles == 2

Threads == {1, 2}

\* ------------------------------------------------------------- JSON values
Null == [t |-> "null"]
Bool(b) == [t |-> "bool", v |-> b]
Num(n) == [t |-> "num", v |-> n]
Str(s) == [t |-> "str", v |-> s]
Arr(a) == [t |-> "arr", v |-> a]
Absent == [t |-> "absent"]

\* A JSON object built from optional members: a member that is Absent is left out.
Obj(members) ==
    [t |-> "obj",
     v |-> [k \in {x \in DOMAIN members : members[x].t # "absent"} |-> members[k]]]

EmptyObj == [t |-> "obj", v |-> <<>>]

\* Python truthiness of a decoded JSON value (None, False, 0, '', [], {} are falsy).
Truthy(j) ==
    CASE j.t = "null" -> FALSE
      [] j.t = "bool" -> j.v
      [] j.t = "num"  -> j.v # 0
      [] j.t = "str"  -> Len(j.v) > 0
      [] j.t = "arr"  -> Len(j.v) > 0
      [] j.t = "obj"  -> DOMAIN j.v # {}

\* Number of characters json.dump emits for a (shallow) value, up to a constant.
JsonSize(j) ==
    CASE j.t = "null" -> 4
      [] j.t = "bool" -> IF j.v THEN 4 ELSE 5
      [] j.t = "num"  -> 1
      [] j.t = "str"  -> Len(j.v) + 2
      [] j.t = "arr"  -> 2 * Len(j.v) + 2
      [] j.t = "obj"  -> 6 * Cardinality(DOMAIN j.v) + 2

\* ------------------------------------------------------------------- text
unknown == <<"u", "n", "k", "n", "o", "w", "n">>

\* request.args.get(key, default)
ArgsGet(args, key, default) == IF key \in DOMAIN args THEN args[key] ELSE default

\* dict.get(key, default) on a decoded JSON object
DictGet(d, key, default) == IF key \in DOMAIN d.v THEN d.v[key] ELSE default

Digit(n) == <<"0", "1", "2", "3", "4", "5", "6", "7", "8", "9">>[n + 1]

\* datetime.now().strftime('%Y%m%d_%H%M%S'): fixed width, with an underscore of
\* its own; "D" stands for the eight date digits, the seconds are two digits.
Strftime(c) == <<"D", "_", Digit((c \div 10) % 10), Digit(c % 10)>>

\* datetime.now().isoformat()
IsoFormat(c) == <<"D", "T", Digit((c \div 10) % 10), Digit(c % 10)>>

\* The file name without the exam.
Filename_NoExam(name, exam, timestamp) ==
    name \o <<"_">> \o timestamp \o <<".json">>

\* f"{name}_{exam}_{timestamp}.json"
Filename(name, exam, timestamp) ==
    name \o <<"_">> \o exam \o <<"_">> \o timestamp \o <<".json">>

\* ------------------------------------------------------------ HTTP pieces
NoBody == [kind |-> "none", json |-> Null]     \* no JSON mimetype on the request
BadBody == [kind |-> "bad", json |-> Null]     \* JSON mimetype, body empty or unparsable
JsonBody(j) == [kind |-> "json", json |-> j]

\* request.get_json() with its defaults (force=False, silent=False).
GetJson(body) ==
    CASE body.kind = "json" -> [raised |-> FALSE, exc |-> "", value |-> body.json]
      [] body.kind = "bad"  -> [raised |-> TRUE, exc |-> "BadRequest", value |-> Null]
      [] body.kind = "none" ->
            IF legacyFlask
            THEN [raised |-> FALSE, exc |-> "", value |-> Null]
            ELSE [raised |-> TRUE, exc |-> "UnsupportedMediaType", value |-> Null]

Response(status, body) == [status |-> status, body |-> body]
ErrorBody(msg) == [error |-> msg]

NoLoc == [none |-> TRUE]
NoResp == [status |-> 0, body |-> <<>>]
Idle == [pc |-> "idle", ep |-> "", req |-> [args |-> <<>>, body |-> NoBody],
         loc |-> NoLoc, resp |-> NoResp]

\* A thread takes a new request when it has none or has answered the last one.
Free(t) == thr[t].pc \in {"idle", "done"}

Done(ep, req, resp) ==
    [pc |-> "done", ep |-> ep, req |-> req, loc |-> NoLoc, resp |-> resp]

\* ------------------------------------------------------------------- Init
Init ==
    /\ thr = [t \in Threads |-> Idle]
    /\ files = <<>>
    /\ dirExists = FALSE
    /\ clock = 0
    /\ legacyFlask \in BOOLEAN

Tick ==
    /\ clock < MaxClock
    /\ clock' = clock + 1
    /\ UNCHANGED <<thr, files, dirExists, legacyFlask>>

\* ------------------------------------------------- upload_log_json, l.8-62
\* The dictionary built on lines 36-44.
LogEntry(name, exam, timestamp, upload_time, json_data) ==
    [metadata |-> [name |-> name, exam |-> exam, timestamp |-> timestamp,
                   upload_time |-> upload_time],
     data |-> json_data]

\* Characters json.dump writes for an entry, up to a constant.
EntrySize(e) == Len(e.metadata.name) + Len(e.metadata.exam) + JsonSize(e.data)

\* open(filepath, 'w'): the file is created, or truncated to nothing.
EmptyFile == [head |-> <<>>, len |-> 0, garbled |-> FALSE]

\* json.dump through a descriptor opened at offset 0, flushed when the with-block
\* closes it: the entry's characters replace the start of the file, and what a
\* longer write by another descriptor left beyond them stays.
WriteAt0(f, e) ==
    [head |-> <<e>>,
     len |-> IF f.len > EntrySize(e) THEN f.len ELSE EntrySize(e),
     garbled |-> f.len > EntrySize(e)]

UploadSuccess(filename, name, exam) ==
    Response(200, [status |-> "success", message |-> "JSON data uploaded successfully",
                   filename |-> filename, name |-> name, exam |-> exam])

UploadFailure(exc) == Response(500, ErrorBody(<<"Failed to upload data: ", exc>>))

\* Uploads that will still create or truncate a file.
Opening == {t \in Threads : thr[t].pc \in {"mkdir", "stamp", "open"}}

\* Lines 14-27: parameters, body, the falsy check, the test for the directory.
UploadBegin(t, req) ==
    /\ Free(t)
    /\ LET name == ArgsGet(req.args, "name", unknown)
           exam == ArgsGet(req.args, "exam", unknown)
           got == GetJson(req.body)
       IN  IF got.raised
           THEN thr' = [thr EXCEPT ![t] = Done("upload", req, UploadFailure(got.exc))]
           ELSE IF ~Truthy(got.value)
           THEN thr' = [thr EXCEPT ![t] =
                           Done("upload", req,
                                Response(400, ErrorBody(<<"No JSON data provided">>)))]
           ELSE /\ Cardinality(DOMAIN files) + Cardinality(Opening \ {t}) < MaxFiles
                /\ thr' = [thr EXCEPT ![t] =
                              [pc |-> IF dirExists THEN "stamp" ELSE "mkdir",
                               ep |-> "upload", req |-> req,
                               loc |-> [name |-> name, exam |-> exam,
                                        json_data |-> got.value],
                               resp |-> NoResp]]
    /\ UNCHANGED <<files, dirExists, clock, legacyFlask>>

\* Line 28: os.makedirs raises FileExistsError when the directory is there by now.
UploadMkdir(t) ==
    /\ thr[t].pc = "mkdir"
    /\ IF dirExists
       THEN /\ thr' = [thr EXCEPT ![t] =
                          Done("upload", thr[t].req, UploadFailure("FileExistsError"))]
            /\ UNCHANGED dirExists
       ELSE /\ dirExists' = TRUE
            /\ thr' = [thr EXCEPT ![t].pc = "stamp"]
    /\ UNCHANGED <<files, clock, legacyFlask>>

\* Lines 31-44: the timestamp, the file name, the entry.
UploadStamp(t) ==
    /\ thr[t].pc = "stamp"
    /\ LET l == thr[t].loc
           timestamp == Strftime(clock)
           filename == Filename(l.name, l.exam, timestamp)
       IN  thr' = [thr EXCEPT ![t].pc = "open",
                              ![t].loc = [name |-> l.name, exam |-> l.exam,
                                          json_data |-> l.json_data,
                                          timestamp |-> timestamp,
                                          filename |-> filename,
                                          log_entry |-> LogEntry(l.name, l.exam, timestamp,
                                                                 IsoFormat(clock),
                                                                 l.json_data)]]
    /\ UNCHANGED <<files, dirExists, clock, legacyFlask>>

\* Line 47: open(filepath, 'w').
UploadOpen(t) ==
    /\ thr[t].pc = "open"
    /\ files' = (thr[t].loc.filename :> EmptyFile) @@ files
    /\ thr' = [thr EXCEPT ![t].pc = "dump"]
    /\ UNCHANGED <<dirExists, clock, legacyFlask>>

\* Lines 48-58: json.dump, the close of the file, the 200 response.
UploadDump(t) ==
    /\ thr[t].pc = "dump"
    /\ LET l == thr[t].loc
       IN  /\ files' = [files EXCEPT ![l.filename] = WriteAt0(@, l.log_entry)]
           /\ thr' = [thr EXCEPT ![t] =
                         Done("upload", thr[t].req,
                              UploadSuccess(l.filename, l.name, l.exam))]
    /\ UNCHANGED <<dirExists, clock, legacyFlask>>

\* ------------------------------------------------------ ask_gemini, l.64-112
\* question[:100] on line 92 needs a str or a list.
Sliceable(j) == j.t \in {"str", "arr"}

AskFailure(exc) == Response(500, ErrorBody(<<"Failed to process question: ", exc>>))

FrqAnswer ==
    [initialAttempt |-> "This is a sample reasoning for the FRQ question.",
     finalAnswer |-> "This is the final answer to the free response question."]

McqAnswer ==
    [rationale |-> "This is the reasoning behind the answer selection.",
     selectedChoice |-> "A"]

\* ask_gemini choosing the answer by the presence of the is_frq key.
AskGeminiResponse_FrqByKey(body) ==
    LET got == GetJson(body)
        data == got.value
    IN  IF got.raised THEN AskFailure(got.exc)
        ELSE IF ~Truthy(data) THEN Response(400, ErrorBody(<<"No JSON data provided">>))
        ELSE IF data.t # "obj" THEN AskFailure("AttributeError")
        ELSE LET question == DictGet(data, "question", Str(<<>>))
             IN  IF ~Truthy(question)
                 THEN Response(400, ErrorBody(<<"Question is required">>))
                 ELSE IF ~Sliceable(question) THEN AskFailure("TypeError")
                 ELSE IF "is_frq" \in DOMAIN data.v THEN Response(200, FrqAnswer)
                 ELSE Response(200, McqAnswer)

\* ask_gemini requiring the question key, not a non-empty question.
AskGeminiResponse_QuestionByKey(body) ==
    LET got == GetJson(body)
        data == got.value
    IN  IF got.raised THEN AskFailure(got.exc)
        ELSE IF ~Truthy(data) THEN Response(400, ErrorBody(<<"No JSON data provided">>))
        ELSE IF data.t # "obj" THEN AskFailure("AttributeError")
        ELSE LET question == DictGet(data, "question", Str(<<>>))
                 is_frq == DictGet(data, "is_frq", Bool(FALSE))
             IN  IF "question" \notin DOMAIN data.v
                 THEN Response(400, ErrorBody(<<"Question is required">>))
                 ELSE IF ~Sliceable(question) THEN AskFailure("TypeError")
                 ELSE IF Truthy(is_frq) THEN Response(200, FrqAnswer)
                 ELSE Response(200, McqAnswer)

AskGeminiResponse(body) ==
    LET got == GetJson(body)
        data == got.value
    IN  IF got.raised THEN AskFailure(got.exc)
        ELSE IF ~Truthy(data) THEN Response(400, ErrorBody(<<"No JSON data provided">>))
        ELSE IF data.t # "obj" THEN AskFailure("AttributeError")
        ELSE LET question == DictGet(data, "question", Str(<<>>))
                 is_frq == DictGet(data, "is_frq", Bool(FALSE))
                 service == DictGet(data, "service", Str(<<>>))
                 exam == DictGet(data, "exam", Str(<<>>))
                 code == DictGet(data, "code", Str(<<>>))
             IN  IF ~Truthy(question)
                 THEN Response(400, ErrorBody(<<"Question is required">>))
                 ELSE IF ~Sliceable(question) THEN AskFailure("TypeError")
                 ELSE IF Truthy(is_frq) THEN Response(200, FrqAnswer)
                 ELSE Response(200, McqAnswer)

AskGemini(t, body) ==
    /\ Free(t)
    /\ thr' = [thr EXCEPT ![t] =
                  Done("askgemini", [args |-> <<>>, body |-> body], AskGeminiResponse(body))]
    /\ UNCHANGED <<files, dirExists, clock, legacyFlask>>

\* ----------------------------------------------------- check_this, l.114-137
\* check_this answering from the logs directory instead of constants.
CheckThisResponse_FromLogs(args) ==
    Response(200, [delete |-> DOMAIN files # {}, quit |-> FALSE])

\* check_this indexing request.args['hwid'] instead of using .get.
CheckThisResponse_RequiresHwid(args) ==
    IF "hwid" \in DOMAIN args
    THEN Response(200, [delete |-> FALSE, quit |-> FALSE])
    ELSE Response(500, ErrorBody(<<"Failed to process check: ", "BadRequestKeyError">>))

CheckThisResponse(args) ==
    LET code == ArgsGet(args, "code", <<>>)
        hwid == ArgsGet(args, "hwid", <<>>)
        name == ArgsGet(args, "name", <<>>)
        shown == SubSeq(hwid, 1, IF Len(hwid) < 10 THEN Len(hwid) ELSE 10)
    IN  Response(200, [delete |-> FALSE, quit |-> FALSE])

CheckThis(t, args) ==
    /\ Free(t)
    /\ thr' = [thr EXCEPT ![t] =
                  Done("checkthis", [args |-> args, body |-> NoBody],
                       CheckThisResponse(args))]
    /\ UNCHANGED <<files, dirExists, clock, legacyFlask>>

\* ------------------------------------------------- download_proxy, l.139-166
DownloadProxyResponse ==
    Response(200, [text |-> "function FindProxyForURL(url, host) { ... }",
                   ContentType |-> "application/x-ns-proxy-autoconfig",
                   ContentDisposition |-> "inline; filename=\"proxy.pac\""])

DownloadProxy(t) ==
    /\ Free(t)
    /\ thr' = [thr EXCEPT ![t] =
                  Done("downloadproxy", [args |-> <<>>, body |-> NoBody],
                       DownloadProxyResponse)]
    /\ UNCHANGED <<files, dirExists, clock, legacyFlask>>

\* --------------------------------------------------- health_check, l.168-171
HealthResponse == Response(200, [status |-> "healthy", timestamp |-> IsoFormat(clock)])

HealthCheck(t) ==
    /\ Free(t)
    /\ thr' = [thr EXCEPT ![t] =
                  Done("health", [args |-> <<>>, body |-> NoBody], HealthResponse)]
    /\ UNCHANGED <<files, dirExists, clock, legacyFlask>>

\* ---------------------------------------------------------- index, l.173-187
IndexResponse ==
    Response(200, [name |-> "Backend API Server", version |-> "1.0.0",
                   endpoints |-> <<"POST /uploadlogjson?name=<name>&exam=<exam>",
                                   "POST /askgemini",
                                   "GET /checkthis?code=<code>&hwid=<hwid>&name=<name>",
                                   "GET /downloadproxy",
                                   "GET /health">>,
                   timestamp |-> IsoFormat(clock)])

Index(t) ==
    /\ Free(t)
    /\ thr' = [thr EXCEPT ![t] =
                  Done("index", [args |-> <<>>, body |-> NoBody], IndexResponse)]
    /\ UNCHANGED <<files, dirExists, clock, legacyFlask>>

\* ----------------------------------------------------------------- inputs
NoArg == <<"<absent>">>

\* A query string: a parameter that is NoArg is not sent.
Args(members) == [k \in {x \in DOMAIN members : members[x] # NoArg} |-> members[k]]

ShortJson == Num(7)
LongJson == Arr(<<Num(1), Num(2)>>)
FalsyJson == {Null, EmptyObj, Arr(<<>>), Num(0), Bool(FALSE), Str(<<>>)}

\* Uploads that race: two with the same parameters and payloads of different
\* lengths, one whose parameters differ and whose file name agrees, and two
\* that send no parameter at all.
RaceRequests ==
    {[args |-> Args([name |-> <<"a", "_", "b">>, exam |-> <<"c">>]), body |-> JsonBody(LongJson)],
     [args |-> Args([name |-> <<"a", "_", "b">>, exam |-> <<"c">>]), body |-> JsonBody(ShortJson)],
     [args |-> Args([name |-> <<"a">>, exam |-> <<"b", "_", "c">>]), body |-> JsonBody(ShortJson)],
     [args |-> Args([name |-> NoArg, exam |-> NoArg]), body |-> JsonBody(ShortJson)],
     [args |-> Args([name |-> NoArg, exam |-> NoArg]), body |-> JsonBody(EmptyObj)]}

\* Uploads with every kind of body.
UploadBodies == {NoBody, BadBody} \cup {JsonBody(j) : j \in FalsyJson \cup {ShortJson}}
UploadRequests ==
    [args : {Args([name |-> <<"f", "o", "o">>, exam |-> <<"b", "a", "r">>]),
             Args([name |-> NoArg, exam |-> <<"b", "a", "r">>])},
     body : UploadBodies]

Question == Str(<<"x">>)
Extra == Str(<<"s">>)

AskBodies ==
    {NoBody, JsonBody(Obj([question |-> Question, is_frq |-> Bool(TRUE)])),
     JsonBody(Obj([question |-> Question, is_frq |-> Absent]))}

AskObjects ==
    {Obj([question |-> q, is_frq |-> f, service |-> x[1], exam |-> x[2], code |-> x[3]]) :
        q \in {Absent, Str(<<>>), Question, Num(5)},
        f \in {Absent, Bool(TRUE), Bool(FALSE)},
        x \in {<<Absent, Absent, Absent>>, <<Extra, Absent, Absent>>,
               <<Absent, Extra, Absent>>, <<Absent, Absent, Extra>>,
               <<Extra, Extra, Extra>>}}
AllAskBodies ==
    {NoBody, BadBody, JsonBody(Null), JsonBody(Arr(<<Question>>)), JsonBody(Question)}
        \cup {JsonBody(j) : j \in AskObjects}

CheckArgs == {Args([code |-> c, hwid |-> NoArg, name |-> NoArg]) : c \in {NoArg, <<"k">>}}
AllCheckArgs ==
    {Args([code |-> c, hwid |-> h, name |-> n]) :
        c \in {NoArg, <<>>, <<"k">>}, h \in {NoArg, <<>>, <<"h", "w">>}, n \in {NoArg, <<>>, <<"n">>}}

\* ------------------------------------------------------------------- Next
Upload(t) ==
    \/ UploadMkdir(t)
    \/ UploadStamp(t)
    \/ UploadOpen(t)
    \/ UploadDump(t)

\* Every route, two threads.
Next ==
    \/ Tick
    \/ \E t \in Threads :
          \/ \E req \in UploadRequests : UploadBegin(t, req)
          \/ Upload(t)
          \/ \E body \in AskBodies : AskGemini(t, body)
          \/ \E args \in CheckArgs : CheckThis(t, args)
          \/ DownloadProxy(t)
          \/ HealthCheck(t)
          \/ Index(t)

Spec == Init /\ [][Next]_vars

\* Concurrent uploads alone.
NextRace ==
    \/ Tick
    \/ \E t \in Threads :
          \/ \E req \in RaceRequests : UploadBegin(t, req)
          \/ Upload(t)

SpecRace == Init /\ [][NextRace]_vars

\* The routes that write nothing, over all their inputs.
NextStateless ==
    \/ Tick
    \/ \E t \in Threads :
          \/ \E body \in AllAskBodies : AskGemini(t, body)
          \/ \E args \in AllCheckArgs : CheckThis(t, args)
          \/ DownloadProxy(t)
          \/ HealthCheck(t)
          \/ Index(t)

SpecStateless == Init /\ [][NextStateless]_vars

\* ------------------------------------------------------------- properties
Answered(t, ep) == thr[t].pc = "done" /\ thr[t].ep = ep

\* Thread t answers a request in this step.
Answers(t) == thr'[t].pc = "done" /\ thr'[t] # thr[t]

\* The parameter a request sent, or the documented default.
NameOf(req) == IF "name" \in DOMAIN req.args THEN req.args.name ELSE unknown
ExamOf(req) == IF "exam" \in DOMAIN req.args THEN req.args.exam ELSE unknown

\* C1: every upload whose body is valid JSON (falsy values such as {}, [], 0,
\* false and "" included; null, which decodes to None, aside) is answered
\* 200 and a file under logs/ holds the posted body as data, with the request's
\* name and exam as metadata.
C1_ValidJsonIsStored ==
    \A t \in Threads :
        (Answered(t, "upload") /\ thr[t].req.body.kind = "json"
            /\ thr[t].req.body.json.t # "null") =>
            /\ thr[t].resp.status = 200
            /\ \E f \in DOMAIN files :
                  /\ files[f].head # <<>>
                  /\ files[f].head[1].data = thr[t].req.body.json
                  /\ files[f].head[1].metadata.name = NameOf(thr[t].req)
                  /\ files[f].head[1].metadata.exam = ExamOf(thr[t].req)

\* C2: an upload that carries no JSON body is answered 400 and leaves the
\* files as they were.
C2_NoBodyIs400 ==
    [][\A t \in Threads :
          (Answers(t) /\ thr'[t].ep = "upload" /\ thr'[t].req.body.kind \in {"none", "bad"}) =>
              (thr'[t].resp.status = 400 /\ files' = files)]_vars

\* C5: a request with missing required input (no body, or no question) is
\* answered 400, never 500, and every 500 carries an error message.
MissingInput(t) ==
    \/ thr[t].ep \in {"upload", "askgemini"} /\ thr[t].req.body.kind \in {"none", "bad"}
    \/ /\ thr[t].ep = "askgemini"
       /\ thr[t].req.body.kind = "json"
       /\ thr[t].req.body.json.t = "obj"
       /\ "question" \notin DOMAIN thr[t].req.body.json.v

C5_MissingInputIs400 ==
    \A t \in Threads :
        thr[t].pc = "done" =>
            /\ MissingInput(t) => thr[t].resp.status = 400
            /\ thr[t].resp.status = 500 => DOMAIN thr[t].resp.body = {"error"}

\* C6: once an upload has written a file, no later step changes or removes it.
C6_WrittenOnce ==
    [][\A f \in DOMAIN files :
          files[f].head # <<>> => (f \in DOMAIN files' /\ files'[f] = files[f])]_vars

\* C7: uploads that differ in name, exam or second never share a file, and a
\* file holds exactly the payload of the request that wrote last.
HasFile(t) == thr[t].pc \in {"open", "dump"}

C7_OnlySameParametersCollide ==
    /\ \A t1, t2 \in Threads :
          (/\ HasFile(t1) /\ HasFile(t2)
           /\ \/ thr[t1].loc.name # thr[t2].loc.name
              \/ thr[t1].loc.exam # thr[t2].loc.exam
              \/ thr[t1].loc.timestamp # thr[t2].loc.timestamp)
          => thr[t1].loc.filename # thr[t2].loc.filename
    /\ \A f \in DOMAIN files : ~files[f].garbled

\* C10: the file name in a 200 response is the file that was written, it is
\* {name}_{exam}_{timestamp}.json with the timestamp stored in that file, and
\* a parameter that was not sent is 'unknown' in the file name, in the stored
\* metadata and in the response.
C10_FilenameMatchesFile ==
    [][\A t \in Threads :
          (thr[t].pc = "dump" /\ thr'[t].pc = "done") =>
              LET r == thr'[t].resp
                  n == NameOf(thr[t].req)
                  e == ExamOf(thr[t].req)
                  fn == r.body.filename
              IN  /\ r.status = 200
                  /\ r.body.name = n
                  /\ r.body.exam = e
                  /\ fn \in DOMAIN files'
                  /\ \A f \in DOMAIN files : f # fn => files'[f] = files[f]
                  /\ files'[fn].head # <<>>
                  /\ LET m == files'[fn].head[1].metadata
                     IN  /\ m.name = n
                         /\ m.exam = e
                         /\ fn = n \o <<"_">> \o e \o <<"_">> \o m.timestamp \o <<".json">>
                  /\ files'[fn].head[1].data = thr[t].req.body.json]_vars

C10_Witness ==
    \E t \in Threads :
        /\ Answered(t, "upload")
        /\ thr[t].resp.status = 200
        /\ DOMAIN thr[t].req.args = {}
        /\ thr[t].resp.body.filename \in DOMAIN files
        /\ files[thr[t].resp.body.filename].head # <<>>
        /\ files[thr[t].resp.body.filename].head[1].metadata.name = unknown

\* C3: with a non-empty question the answer is 200 and its keys follow is_frq
\* alone: initialAttempt and finalAnswer when it is true, rationale and
\* selectedChoice when it is false or absent; service, exam and code change
\* nothing.
JsonObject(t) == thr[t].req.body.kind = "json" /\ thr[t].req.body.json.t = "obj"
Member(t, k) == thr[t].req.body.json.v[k]
Has(t, k) == k \in DOMAIN thr[t].req.body.json.v
HasQuestionText(t) ==
    JsonObject(t) /\ Has(t, "question") /\ Member(t, "question").t = "str"
        /\ Len(Member(t, "question").v) > 0
FrqTrue(t) == Has(t, "is_frq") /\ Member(t, "is_frq").t = "bool" /\ Member(t, "is_frq").v
SameMember(t1, t2, k) ==
    /\ Has(t1, k) <=> Has(t2, k)
    /\ Has(t1, k) => Member(t1, k) = Member(t2, k)

C3_KeysFollowIsFrq ==
    /\ \A t \in Threads :
          (Answered(t, "askgemini") /\ HasQuestionText(t)) =>
              /\ thr[t].resp.status = 200
              /\ DOMAIN thr[t].resp.body =
                    IF FrqTrue(t) THEN {"initialAttempt", "finalAnswer"}
                    ELSE {"rationale", "selectedChoice"}
    /\ \A t1, t2 \in Threads :
          (/\ Answered(t1, "askgemini") /\ Answered(t2, "askgemini")
           /\ HasQuestionText(t1) /\ HasQuestionText(t2)
           /\ SameMember(t1, t2, "question") /\ SameMember(t1, t2, "is_frq"))
          => thr[t1].resp = thr[t2].resp

C3_Witness ==
    \E t1, t2 \in Threads :
        /\ Answered(t1, "askgemini") /\ HasQuestionText(t1) /\ FrqTrue(t1)
        /\ Has(t1, "service") /\ ~Has(t1, "code")
        /\ "finalAnswer" \in DOMAIN thr[t1].resp.body
        /\ Answered(t2, "askgemini") /\ HasQuestionText(t2) /\ Has(t2, "is_frq") /\ ~FrqTrue(t2)
        /\ Has(t2, "code") /\ ~Has(t2, "service")
        /\ "selectedChoice" \in DOMAIN thr[t2].resp.body

\* C4: a JSON object with no question member, or with the empty string as
\* question, is answered 400.
NoQuestion(t) ==
    JsonObject(t) /\ (~Has(t, "question") \/ Member(t, "question") = Str(<<>>))

C4_NoQuestionIs400 ==
    \A t \in Threads :
        (Answered(t, "askgemini") /\ NoQuestion(t)) => thr[t].resp.status = 400

C4_Witness ==
    \E t1, t2 \in Threads :
        /\ Answered(t1, "askgemini") /\ JsonObject(t1) /\ ~Has(t1, "question")
        /\ Has(t1, "is_frq") /\ thr[t1].resp.status = 400
        /\ Answered(t2, "askgemini") /\ JsonObject(t2) /\ Has(t2, "question")
        /\ NoQuestion(t2) /\ thr[t2].resp.status = 400

\* C8: the routes other than the upload leave the logs directory and its files
\* alone, and two requests to one of them with the same input get the same
\* status and the same body, timestamp aside, whatever was served in between.
StatelessRoutes == {"askgemini", "checkthis", "downloadproxy", "health", "index"}
SansTimestamp(body) == [k \in DOMAIN body \ {"timestamp"} |-> body[k]]

SameInputSameAnswer ==
    \A t1, t2 \in Threads :
        (/\ thr[t1].pc = "done" /\ thr[t2].pc = "done"
         /\ thr[t1].ep \in StatelessRoutes
         /\ thr[t1].ep = thr[t2].ep
         /\ thr[t1].req = thr[t2].req)
        => /\ thr[t1].resp.status = thr[t2].resp.status
           /\ SansTimestamp(thr[t1].resp.body) = SansTimestamp(thr[t2].resp.body)

C8_StatelessRoutes ==
    [][/\ \A t \in Threads :
             (Answers(t) /\ thr'[t].ep \in StatelessRoutes) =>
                 (files' = files /\ dirExists' = dirExists)
       /\ SameInputSameAnswer']_vars

C8_Witness ==
    \E t1, t2 \in Threads :
        /\ Answered(t1, "checkthis") /\ Answered(t2, "checkthis")
        /\ t1 # t2
        /\ thr[t1].req = thr[t2].req
        /\ \E f \in DOMAIN files : files[f].head # <<>>

\* C9: /checkthis answers 200 with delete and quit both false, whichever of
\* code, hwid and name are sent, empty or not.
C9_CheckThisConstant ==
    \A t \in Threads :
        Answered(t, "checkthis") =>
            /\ thr[t].resp.status = 200
            /\ DOMAIN thr[t].resp.body = {"delete", "quit"}
            /\ thr[t].resp.body.delete = FALSE
            /\ thr[t].resp.body.quit = FALSE

C9_Witness ==
    \E t1, t2 \in Threads :
        /\ Answered(t1, "checkthis") /\ DOMAIN thr[t1].req.args = {}
        /\ thr[t1].resp.status = 200
        /\ Answered(t2, "checkthis") /\ DOMAIN thr[t2].req.args = {"code", "hwid", "name"}
        /\ thr[t2].req.args.hwid = <<>>
        /\ thr[t2].resp.status = 200

====
